---- MODULE Spec2Model ----
(***************************************************************************)
(* Model of the punch-clock timesheet (src/src/sheet.rs): a Sheet is a     *)
(* list of events, each with a start instant and an optional stop instant. *)
(* punch_in_at / punch_out_at / status are translated arm by arm from the  *)
(* match expressions of the source.  Instants (DateTime<Utc>) are modelled *)
(* as the integers 0..MaxTime; the order on instants is the integer order. *)
(***************************************************************************)
EXTENDS Integers, Sequences, FiniteSets, TLC

\* ------------------------------------------------------------------------
\* Bounds of the model
\* ------------------------------------------------------------------------
\* Largest instant a caller may pass to a punch call.
MaxTime == 2

\* Largest number of events a sheet may hold in the model.
MaxEvents == 3

\* Largest number of events of a sheet on which count_range is called.
MaxCountEvents == 2

\* Largest number of runs of the program that are started.
MaxInvocations == 3

\* The instants a caller may supply.
Times == 0..MaxTime

\* Option::None of an `Option<DateTime<Utc>>`: a value that is no instant.
None == -1

\* ------------------------------------------------------------------------
\* State
\* ------------------------------------------------------------------------
VARIABLES
    events,     \* Sheet.events : Vec<Event>, each [start, stop]
    call,       \* the most recent call: [op, time]
    ret,        \* the value that call returned: [kind, tag, val]
    before,     \* Sheet.events as it was when that call was entered
    window,     \* the arguments of the most recent count_range call and the
                \* instant Utc::now() gave it: [begin, end, now]
    file,       \* the sheet file at the path: [kind, text]
    loaded,     \* what the most recent Sheet::load returned: [kind, tag, events]
    saved,      \* history: whether the file's text was put there by a
                \*          Sheet::write that returned Ok, and of which events
    pc,         \* per run of the program: where main is
    cmd,        \* per run: the subcommand Opt::from_args returned
    sheet,      \* per run: the local `sheet` of main
    got,        \* per run, history: the events read_sheet returned
    readText,   \* per run, history: the text read_sheet read
    out,        \* per run: what the subcommand's call returned
    tally,      \* per run, history: numbers of loads, punches, saves
    quiet,      \* per run, history: no other run took a step since it began
    clock,      \* the system clock Utc::now() reads
    started,    \* history: number of runs started so far
    okLog,      \* history: the successful punch calls, in order
    lastTime,   \* history: the instant passed to the previous punch call
                \*          (kept only while `monotone` holds)
    monotone    \* history: every punch call so far was passed an instant
                \*          not earlier than the one passed to the call before

\* The variables of the sheet in memory, and those of the sheet file.
sheetVars == <<events, call, ret, before, window, okLog, lastTime, monotone>>

storeVars == <<file, loaded, saved>>

mainVars == <<pc, cmd, sheet, got, readText, out, tally, quiet, clock,
              started>>

vars == <<sheetVars, storeVars, mainVars>>

\* ------------------------------------------------------------------------
\* Values
\* ------------------------------------------------------------------------
\* Event::new(time): a period that has started and not yet stopped.  sheet.rs
\* uses Event as a struct with fields `start` and `stop: Option<..>`; the
\* constructor's body is not among the sources (event.rs declares another
\* shape of Event), so it follows the documented behaviour: stop is absent.
Event_new(time) == [start |-> time, stop |-> None]

\* Result::Ok(time)
Ok(time) == [kind |-> "Ok", tag |-> "Ok", val |-> time]

\* Result::Err(SheetError::PunchedIn(t)) and the other two punch errors.
ErrPunchedIn(t) == [kind |-> "Err", tag |-> "PunchedIn", val |-> t]

ErrPunchedOut(t) == [kind |-> "Err", tag |-> "PunchedOut", val |-> t]

ErrNoPunches == [kind |-> "Err", tag |-> "NoPunches", val |-> None]

\* SheetStatus::{PunchedIn(t), PunchedOut(t), Empty}
StatusPunchedIn(t) == [kind |-> "Status", tag |-> "PunchedIn", val |-> t]

StatusPunchedOut(t) == [kind |-> "Status", tag |-> "PunchedOut", val |-> t]

StatusEmpty == [kind |-> "Status", tag |-> "Empty", val |-> None]

\* self.events.last() is Some(..): the vector is not empty.
has_last(evs) == Len(evs) > 0

\* The element self.events.last() holds when it is Some(..).
last(evs) == evs[Len(evs)]

\* ------------------------------------------------------------------------
\* Sheet::punch_in_at, as a function of the sheet and the instant:
\* the new events and the returned Result.
\* ------------------------------------------------------------------------
\* Variant: the match on the last event is dropped, every call pushes.
punch_in_at_always_push(evs, time) ==
    [events |-> Append(evs, Event_new(time)), ret |-> Ok(time)]

\* Variant: the rejecting arm restarts the open period at `time`.
punch_in_at_err_restarts(evs, time) ==
    IF (~has_last(evs)) \/ last(evs).stop # None
    THEN [events |-> Append(evs, Event_new(time)), ret |-> Ok(time)]
    ELSE [events |-> [evs EXCEPT ![Len(evs)].start = time],
          ret |-> ErrPunchedIn(last(evs).start)]

\* Variant: the accepting arm replaces the last event instead of pushing.
punch_in_at_replaces_last(evs, time) ==
    IF ~has_last(evs)
    THEN [events |-> Append(evs, Event_new(time)), ret |-> Ok(time)]
    ELSE IF last(evs).stop # None
         THEN [events |-> [evs EXCEPT ![Len(evs)] = Event_new(time)],
               ret |-> Ok(time)]
         ELSE [events |-> evs, ret |-> ErrPunchedIn(last(evs).start)]

\* Variant: the error carries the instant passed, not the open start.
punch_in_at_err_carries_time(evs, time) ==
    IF (~has_last(evs)) \/ last(evs).stop # None
    THEN [events |-> Append(evs, Event_new(time)), ret |-> Ok(time)]
    ELSE [events |-> evs, ret |-> ErrPunchedIn(time)]

\* Variant: the new event is inserted at the front of the vector.
punch_in_at_push_front(evs, time) ==
    IF (~has_last(evs)) \/ last(evs).stop # None
    THEN [events |-> <<Event_new(time)>> \o evs, ret |-> Ok(time)]
    ELSE [events |-> evs, ret |-> ErrPunchedIn(last(evs).start)]

punch_in_at_result(evs, time) ==
    IF (~has_last(evs)) \/ last(evs).stop # None
    THEN [events |-> Append(evs, Event_new(time)), ret |-> Ok(time)]
    ELSE [events |-> evs, ret |-> ErrPunchedIn(last(evs).start)]

\* ------------------------------------------------------------------------
\* Sheet::punch_out_at, likewise.
\* ------------------------------------------------------------------------
\* Variant: the stop is written to the first event, not the last.
punch_out_at_closes_first(evs, time) ==
    IF has_last(evs) /\ last(evs).stop = None
    THEN [events |-> [evs EXCEPT ![1].stop = time], ret |-> Ok(time)]
    ELSE IF has_last(evs)
         THEN [events |-> evs, ret |-> ErrPunchedOut(last(evs).stop)]
         ELSE [events |-> evs, ret |-> ErrNoPunches]

\* Variant: the PunchedOut error carries the start of the last event.
punch_out_at_err_carries_start(evs, time) ==
    IF has_last(evs) /\ last(evs).stop = None
    THEN [events |-> [evs EXCEPT ![Len(evs)].stop = time], ret |-> Ok(time)]
    ELSE IF has_last(evs)
         THEN [events |-> evs, ret |-> ErrPunchedOut(last(evs).start)]
         ELSE [events |-> evs, ret |-> ErrNoPunches]

\* Variant: the arm that closes matches a last event that has stopped too.
punch_out_at_accepts_closed(evs, time) ==
    IF has_last(evs)
    THEN [events |-> [evs EXCEPT ![Len(evs)].stop = time], ret |-> Ok(time)]
    ELSE [events |-> evs, ret |-> ErrNoPunches]

punch_out_at_result(evs, time) ==
    IF has_last(evs) /\ last(evs).stop = None
    THEN [events |-> [evs EXCEPT ![Len(evs)].stop = time], ret |-> Ok(time)]
    ELSE IF has_last(evs)
         THEN [events |-> evs, ret |-> ErrPunchedOut(last(evs).stop)]
         ELSE [events |-> evs, ret |-> ErrNoPunches]

\* ------------------------------------------------------------------------
\* Sheet::status
\* ------------------------------------------------------------------------
\* Variant: the arms are tried in the other order, so the arm binding
\* `start` matches every non-empty sheet.
status_arms_swapped(evs) ==
    IF has_last(evs)
    THEN StatusPunchedIn(last(evs).start)
    ELSE StatusEmpty

status(evs) ==
    IF has_last(evs) /\ last(evs).stop # None
    THEN StatusPunchedOut(last(evs).stop)
    ELSE IF has_last(evs)
         THEN StatusPunchedIn(last(evs).start)
         ELSE StatusEmpty

\* ------------------------------------------------------------------------
\* Sheet::count_range.  Utc::now() is read inside the first map closure, once
\* for each event without a stop; `now` is the instant it returns.
\* ------------------------------------------------------------------------
\* std::cmp::max and std::cmp::min on instants.
max(a, b) == IF a >= b THEN a ELSE b

min(a, b) == IF a <= b THEN a ELSE b

\* Variant: an event without a stop is given its own start as stop.
unwrap_or_start(e, now) == IF e.stop = None THEN e.start ELSE e.stop

\* e.stop.unwrap_or_else(Utc::now)
unwrap_or_now(e, now) == IF e.stop = None THEN now ELSE e.stop

\* The two tests of the filter closure.
entirely_before(start, stop, begin) == start < begin /\ stop < begin

entirely_after(start, stop, end) == start > end /\ stop > end

\* Variant: the filter closure keeps every pair.
count_range_filter_keeps_all(start, stop, begin, end) == TRUE

\* The filter closure: TRUE for the pairs that stay in the iterator.
count_range_filter(start, stop, begin, end) ==
    ~(entirely_before(start, stop, begin) \/ entirely_after(start, stop, end))

\* Variant: the begin of the overlap is not clipped to the window.
count_range_clip_unclipped_begin(start, stop, begin, end) ==
    LET real_end == min(end, stop)
    IN real_end - start

\* Variant: the end of the overlap is not clipped to the window.
count_range_clip_unclipped_end(start, stop, begin, end) ==
    LET real_begin == max(begin, start)
    IN stop - real_begin

\* The second map closure: real_end - real_begin, a signed Duration.
count_range_clip(start, stop, begin, end) ==
    LET real_begin == max(begin, start)
        real_end == min(end, stop)
    IN real_end - real_begin

\* What one event adds to the fold.
count_range_term(e, begin, end, now) ==
    LET start == e.start
        stop == unwrap_or_now(e, now)
    IN IF count_range_filter(start, stop, begin, end)
       THEN count_range_clip(start, stop, begin, end)
       ELSE 0

\* .fold(Duration::zero(), |acc, next| acc + next) over the first n events.
RECURSIVE count_range_fold(_, _, _, _, _)
count_range_fold(evs, n, begin, end, now) ==
    IF n = 0
    THEN 0
    ELSE count_range_fold(evs, n - 1, begin, end, now)
         + count_range_term(evs[n], begin, end, now)

count_range(evs, begin, end, now) ==
    count_range_fold(evs, Len(evs), begin, end, now)

\* A Duration returned by count_range.
DurationOf(n) == [kind |-> "Duration", tag |-> "Duration", val |-> n]

\* No count_range call is the most recent call.
NoWindow == [begin |-> None, end |-> None, now |-> None]

\* ------------------------------------------------------------------------
\* The sheet file and its JSON text.  A text is a sequence of tokens; the
\* empty sequence is the empty string.
\* ------------------------------------------------------------------------
\* No file at the path: File::open fails.
NoFile == [kind |-> "absent", text |-> <<>>]

\* A file whose bytes are not UTF-8: read_to_string fails.
BytesFile == [kind |-> "bytes", text |-> <<>>]

\* A file holding the given text.
TextFile(text) == [kind |-> "text", text |-> text]

\* The instants a text can name.
Instants == 0..(MaxTime + MaxInvocations)

\* An instant as it is written in the text, and an absent stop.
time_to_json(t) == ToString(t)

option_to_json(o) == IF o = None THEN "null" ELSE time_to_json(o)

\* The token names an instant / the instant it names.
is_time_json(tok) == \E t \in Instants : time_to_json(t) = tok

time_from_json(tok) == CHOOSE t \in Instants : time_to_json(t) = tok

\* One event as text: {"start":..,"stop":..}
Event_to_json(e) ==
    <<"{", "start", time_to_json(e.start), "stop", option_to_json(e.stop), "}">>

\* The length of one event's text.
EventJsonLen == 6

\* The text begins with one event.
is_event_json(text) ==
    /\ Len(text) >= EventJsonLen
    /\ text[1] = "{"
    /\ text[2] = "start"
    /\ is_time_json(text[3])
    /\ text[4] = "stop"
    /\ (text[5] = "null" \/ is_time_json(text[5]))
    /\ text[6] = "}"

\* The event the text begins with.
Event_from_json(text) ==
    [start |-> time_from_json(text[3]),
     stop |-> IF text[5] = "null" THEN None ELSE time_from_json(text[5])]

\* The events of a vector as text, separated by commas.
RECURSIVE events_to_json(_)
events_to_json(evs) ==
    IF Len(evs) = 0
    THEN <<>>
    ELSE IF Len(evs) = 1
         THEN Event_to_json(evs[1])
         ELSE Event_to_json(evs[1]) \o <<",">> \o events_to_json(Tail(evs))

\* serde_json::to_string(self) for a Sheet: {"events":[..]}
Sheet_to_json(evs) ==
    <<"{", "events", "[">> \o events_to_json(evs) \o <<"]", "}">>

\* The text is a comma-separated list of events.
RECURSIVE is_events_json(_)
is_events_json(text) ==
    /\ is_event_json(text)
    /\ \/ Len(text) = EventJsonLen
       \/ /\ Len(text) > EventJsonLen + 1
          /\ text[EventJsonLen + 1] = ","
          /\ is_events_json(SubSeq(text, EventJsonLen + 2, Len(text)))

RECURSIVE events_from_json(_)
events_from_json(text) ==
    IF Len(text) = EventJsonLen
    THEN <<Event_from_json(text)>>
    ELSE <<Event_from_json(text)>>
         \o events_from_json(SubSeq(text, EventJsonLen + 2, Len(text)))

\* The text between the brackets of {"events":[ .. ]}
json_body(text) == SubSeq(text, 4, Len(text) - 2)

\* serde_json::from_str::<Sheet> succeeds on the text.
is_sheet_json(text) ==
    /\ Len(text) >= 5
    /\ text[1] = "{"
    /\ text[2] = "events"
    /\ text[3] = "["
    /\ text[Len(text) - 1] = "]"
    /\ text[Len(text)] = "}"
    /\ (Len(text) = 5 \/ is_events_json(json_body(text)))

\* The events serde_json::from_str::<Sheet> gives for such a text.
Sheet_from_json(text) ==
    IF Len(text) = 5 THEN <<>> ELSE events_from_json(json_body(text))

\* Results of Sheet::load and Sheet::write.
LoadOk(evs) == [kind |-> "Ok", tag |-> "Sheet", events |-> evs]

LoadErr(tag) == [kind |-> "Err", tag |-> tag, events |-> <<>>]

NoLoad == [kind |-> "none", tag |-> "none", events |-> <<>>]

OkUnit == [kind |-> "Ok", tag |-> "Unit", val |-> None]

ErrWriteSheet == [kind |-> "Err", tag |-> "WriteSheet", val |-> None]

\* The parse at the end of Sheet::load and of read_sheet.
parse_sheet_json(sheet_json) ==
    IF Len(sheet_json) = 0
    THEN LoadOk(<<>>)
    ELSE IF is_sheet_json(sheet_json)
         THEN LoadOk(Sheet_from_json(sheet_json))
         ELSE LoadErr("ParseSheet")

\* Sheet::load(path) on the file f.
Sheet_load(f) ==
    IF f.kind = "absent"
    THEN LoadErr("OpenSheet")
    ELSE IF f.kind = "bytes"
         THEN LoadErr("ReadSheet")
         ELSE parse_sheet_json(f.text)

\* Variant: only the vector of events is serialized, not the Sheet.
Sheet_write_bare_events(evs, f, created) ==
    IF created
    THEN [file |-> TextFile(<<"[">> \o events_to_json(evs) \o <<"]">>),
          ret |-> OkUnit]
    ELSE [file |-> f, ret |-> ErrWriteSheet]

\* Sheet::write(path) of the events evs over the file f; `created` tells
\* whether File::create succeeded.  File::create truncates, write! then
\* puts the whole text.
Sheet_write(evs, f, created) ==
    IF created
    THEN [file |-> TextFile(Sheet_to_json(evs)), ret |-> OkUnit]
    ELSE [file |-> f, ret |-> ErrWriteSheet]

\* The files a sheet may find at its path before it is first written.
InitialFiles ==
    {NoFile, BytesFile, TextFile(<<>>), TextFile(<<"garbage">>),
     TextFile(<<"{", "events", "[">>)}

\* No Sheet::write has returned Ok yet.
NotSaved == [ok |-> FALSE, events |-> <<>>]

\* ------------------------------------------------------------------------
\* Initial state: Sheet::default(), no call made yet.
\* ------------------------------------------------------------------------
InitSheet ==
    /\ events = <<>>
    /\ call = [op |-> "none", time |-> None]
    /\ ret = [kind |-> "none", tag |-> "none", val |-> None]
    /\ before = <<>>
    /\ window = NoWindow
    /\ okLog = <<>>
    /\ lastTime = None
    /\ monotone = TRUE

\* The sheet file is not looked at.
InitStoreUnused ==
    /\ file = NoFile
    /\ loaded = NoLoad
    /\ saved = NotSaved

\* The runs of the program (main.rs) that may be alive at the same time.
Procs == {1, 2}

NoOut == [kind |-> "none", tag |-> "none", val |-> None]

NoTally == [loads |-> 0, punches |-> 0, creates |-> 0, saves |-> 0]

\* No run of the program has been started.
InitMainUnused ==
    /\ pc = [p \in Procs |-> "idle"]
    /\ cmd = [p \in Procs |-> "none"]
    /\ sheet = [p \in Procs |-> <<>>]
    /\ got = [p \in Procs |-> <<>>]
    /\ readText = [p \in Procs |-> <<>>]
    /\ out = [p \in Procs |-> NoOut]
    /\ tally = [p \in Procs |-> NoTally]
    /\ quiet = [p \in Procs |-> TRUE]
    /\ clock = 0
    /\ started = 0

Init == InitSheet /\ InitStoreUnused /\ InitMainUnused

\* The history of instants passed to punch calls.  Once an instant went
\* backwards `monotone` stays FALSE, and the previous instant is no longer
\* needed.
NoteTime(time) ==
    /\ monotone' = (monotone /\ (lastTime = None \/ lastTime <= time))
    /\ lastTime' = IF monotone' THEN time ELSE None

\* A caller invokes sheet.punch_in_at(time).
PunchInAt(time) ==
    LET r == punch_in_at_result(events, time) IN
    /\ Len(r.events) <= MaxEvents
    /\ events' = r.events
    /\ ret' = r.ret
    /\ call' = [op |-> "punch_in_at", time |-> time]
    /\ before' = events
    /\ window' = NoWindow
    /\ okLog' = IF r.ret.kind = "Ok" THEN Append(okLog, "in") ELSE okLog
    /\ NoteTime(time)
    /\ UNCHANGED <<storeVars, mainVars>>

\* A caller invokes sheet.punch_out_at(time).
PunchOutAt(time) ==
    LET r == punch_out_at_result(events, time) IN
    /\ events' = r.events
    /\ ret' = r.ret
    /\ call' = [op |-> "punch_out_at", time |-> time]
    /\ before' = events
    /\ window' = NoWindow
    /\ okLog' = IF r.ret.kind = "Ok" THEN Append(okLog, "out") ELSE okLog
    /\ NoteTime(time)
    /\ UNCHANGED <<storeVars, mainVars>>

\* A caller invokes sheet.status(); it takes &self.
Status ==
    /\ ret' = status(events)
    /\ call' = [op |-> "status", time |-> None]
    /\ before' = events
    /\ window' = NoWindow
    /\ UNCHANGED <<events, okLog, lastTime, monotone>>
    /\ UNCHANGED <<storeVars, mainVars>>

\* Utc::now() is called by unwrap_or_else only for an event without a stop.
reads_now(evs) == \E i \in 1..Len(evs) : evs[i].stop = None

\* A caller invokes sheet.count_range(begin, end) while the clock reads now
\* (None when the clock is not read); it takes &self.
CountRange(begin, end, now) ==
    /\ Len(events) <= MaxCountEvents
    /\ (now = None) <=> ~reads_now(events)
    /\ ret' = DurationOf(count_range(events, begin, end, now))
    /\ call' = [op |-> "count_range", time |-> None]
    /\ before' = events
    /\ window' = [begin |-> begin, end |-> end, now |-> now]
    /\ UNCHANGED <<events, okLog, lastTime, monotone>>
    /\ UNCHANGED <<storeVars, mainVars>>

Next ==
    \/ \E time \in Times : PunchInAt(time)
    \/ \E time \in Times : PunchOutAt(time)
    \/ Status

Spec == Init /\ [][Next]_vars

\* The same sheet with count_range among the calls.
NextCount ==
    \/ \E time \in Times : PunchInAt(time)
    \/ \E time \in Times : PunchOutAt(time)
    \/ Status
    \/ \E begin \in Times, end \in Times, now \in Times \cup {None} :
          CountRange(begin, end, now)

SpecCount == Init /\ [][NextCount]_vars

\* ------------------------------------------------------------------------
\* The sheet and its file: a sheet is built by punches, then written to the
\* path and loaded from it.
\* ------------------------------------------------------------------------
\* Largest number of events of a sheet that is written to the file.
MaxStoreEvents == 2

\* A caller invokes sheet.write(path).
Write(created) ==
    LET r == Sheet_write(events, file, created) IN
    /\ file' = r.file
    /\ ret' = r.ret
    /\ call' = [op |-> "write", time |-> None]
    /\ before' = events
    /\ window' = NoWindow
    /\ saved' = IF r.ret.kind = "Ok"
                 THEN [ok |-> TRUE, events |-> events]
                 ELSE saved
    /\ UNCHANGED <<events, okLog, lastTime, monotone, loaded>>
    /\ UNCHANGED mainVars

\* A caller invokes Sheet::load(path).
Load ==
    /\ loaded' = Sheet_load(file)
    /\ ret' = [kind |-> loaded'.kind, tag |-> loaded'.tag, val |-> None]
    /\ call' = [op |-> "load", time |-> None]
    /\ before' = events
    /\ window' = NoWindow
    /\ UNCHANGED <<events, okLog, lastTime, monotone, file, saved>>
    /\ UNCHANGED mainVars

InitStore ==
    /\ InitSheet
    /\ file \in InitialFiles
    /\ loaded = NoLoad
    /\ saved = NotSaved
    /\ InitMainUnused

\* Punches build the sheet until it is first written.
NextStore ==
    \/ \E time \in Times :
          (~saved.ok) /\ Len(events) < MaxStoreEvents /\ PunchInAt(time)
    \/ \E time \in Times : (~saved.ok) /\ PunchOutAt(time)
    \/ \E created \in BOOLEAN : Write(created)
    \/ Load

SpecStore == InitStore /\ [][NextStore]_vars

\* ------------------------------------------------------------------------
\* The program (main.rs): each run reads the sheet file, executes one
\* subcommand and overwrites the file.  Runs may be alive together; each
\* step below is one access to the file or to the local sheet.
\* ------------------------------------------------------------------------
\* The subcommands of Opt.  "Count" stands for `count all`; the other
\* periods pass another window to the same count_range call.
Commands == {"In", "Out", "Status", "Count"}

\* The run is not executing main.
Inactive(p) == pc[p] \in {"idle", "done", "panicked"}

\* A step of run p is seen by every other run.
Disturb(p) == quiet' = [q \in Procs |-> IF q = p THEN quiet[q] ELSE FALSE]

\* Variant: a text that does not parse is taken for a new, empty sheet.
read_sheet_masks_parse_error(f) ==
    IF f.kind = "absent"
    THEN [file |-> TextFile(<<>>), text |-> <<>>, res |-> LoadOk(<<>>)]
    ELSE IF f.kind = "bytes"
         THEN [file |-> f, text |-> <<>>, res |-> LoadErr("ReadSheet")]
         ELSE [file |-> f, text |-> f.text,
               res |-> IF parse_sheet_json(f.text).kind = "Ok"
                       THEN parse_sheet_json(f.text)
                       ELSE LoadOk(<<>>)]

\* read_sheet on the file f: the file it leaves (it creates a missing
\* file), the text it read, and the sheet it returns or the panic.
read_sheet(f) ==
    IF f.kind = "absent"
    THEN [file |-> TextFile(<<>>), text |-> <<>>, res |-> LoadOk(<<>>)]
    ELSE IF f.kind = "bytes"
         THEN [file |-> f, text |-> <<>>, res |-> LoadErr("ReadSheet")]
         ELSE [file |-> f, text |-> f.text, res |-> parse_sheet_json(f.text)]

\* Variant: the punch is applied to a copy of the sheet and then dropped.
main_command_on_copy(sh, c, now) ==
    IF c = "In"
    THEN [sheet |-> sh, out |-> punch_in_at_result(sh, now).ret]
    ELSE IF c = "Out"
         THEN [sheet |-> sh, out |-> punch_out_at_result(sh, now).ret]
         ELSE IF c = "Status"
              THEN [sheet |-> sh, out |-> status(sh)]
              ELSE [sheet |-> sh,
                    out |-> IF status(sh) = StatusEmpty
                            THEN DurationOf(0)
                            ELSE DurationOf(
                                   count_range(sh, sh[1].start, now, now))]

\* The match on opt in main: the local sheet afterwards and what the call
\* returned; `now` is what Utc::now() reads.
main_command(sh, c, now) ==
    IF c = "In"
    THEN [sheet |-> punch_in_at_result(sh, now).events,
          out |-> punch_in_at_result(sh, now).ret]
    ELSE IF c = "Out"
         THEN [sheet |-> punch_out_at_result(sh, now).events,
               out |-> punch_out_at_result(sh, now).ret]
         ELSE IF c = "Status"
              THEN [sheet |-> sh, out |-> status(sh)]
              ELSE [sheet |-> sh,
                    out |-> IF status(sh) = StatusEmpty
                            THEN DurationOf(0)
                            ELSE DurationOf(
                                   count_range(sh, sh[1].start, now, now))]

\* write! on a file just opened by File::create: the text goes to the
\* start of the file, over what is there.
write_at_start(old, text) ==
    text \o SubSeq(old, Len(text) + 1, Len(old))

\* Opt::from_args(): a run of the program begins.
Start(p, c) ==
    /\ Inactive(p)
    /\ started < MaxInvocations
    /\ started' = started + 1
    /\ pc' = [pc EXCEPT ![p] = "args"]
    /\ cmd' = [cmd EXCEPT ![p] = c]
    /\ sheet' = [sheet EXCEPT ![p] = <<>>]
    /\ got' = [got EXCEPT ![p] = <<>>]
    /\ readText' = [readText EXCEPT ![p] = <<>>]
    /\ out' = [out EXCEPT ![p] = NoOut]
    /\ tally' = [tally EXCEPT ![p] = NoTally]
    /\ quiet' = [q \in Procs |->
                   IF q = p THEN \A o \in Procs \ {p} : Inactive(o)
                   ELSE FALSE]
    /\ UNCHANGED <<clock, sheetVars, storeVars>>

\* let mut sheet = read_sheet();
ReadSheet(p) ==
    LET r == read_sheet(file) IN
    /\ pc[p] = "args"
    /\ file' = r.file
    /\ readText' = [readText EXCEPT ![p] = r.text]
    /\ tally' = [tally EXCEPT ![p].loads = @ + 1]
    /\ IF r.res.kind = "Ok"
       THEN /\ pc' = [pc EXCEPT ![p] = "loaded"]
            /\ sheet' = [sheet EXCEPT ![p] = r.res.events]
            /\ got' = [got EXCEPT ![p] = r.res.events]
       ELSE /\ pc' = [pc EXCEPT ![p] = "panicked"]
            /\ UNCHANGED <<sheet, got>>
    /\ Disturb(p)
    /\ UNCHANGED <<cmd, out, clock, started, sheetVars, loaded, saved>>

\* match opt { .. }: the subcommand runs on the local sheet.
Command(p) ==
    LET r == main_command(sheet[p], cmd[p], clock) IN
    /\ pc[p] = "loaded"
    /\ pc' = [pc EXCEPT ![p] = "ran"]
    /\ sheet' = [sheet EXCEPT ![p] = r.sheet]
    /\ out' = [out EXCEPT ![p] = r.out]
    /\ tally' = [tally EXCEPT ![p].punches =
                    IF cmd[p] \in {"In", "Out"} THEN @ + 1 ELSE @]
    /\ clock' = IF cmd[p] \in {"In", "Out"} THEN clock + 1 ELSE clock
    /\ Disturb(p)
    /\ UNCHANGED <<cmd, got, readText, started, sheetVars, storeVars>>

\* overwrite_sheet, File::create(&sheet_path): the file is truncated.
Create(p) ==
    /\ pc[p] = "ran"
    /\ pc' = [pc EXCEPT ![p] = "created"]
    /\ file' = TextFile(<<>>)
    /\ tally' = [tally EXCEPT ![p].creates = @ + 1]
    /\ Disturb(p)
    /\ UNCHANGED <<cmd, sheet, got, readText, out, clock, started,
                   sheetVars, loaded, saved>>

\* overwrite_sheet, write!(&mut sheet_file, "{}", new_sheet_json).
WriteOut(p) ==
    /\ pc[p] = "created"
    /\ pc' = [pc EXCEPT ![p] = "done"]
    /\ file' = TextFile(write_at_start(file.text, Sheet_to_json(sheet[p])))
    /\ tally' = [tally EXCEPT ![p].saves = @ + 1]
    /\ Disturb(p)
    /\ UNCHANGED <<cmd, sheet, got, readText, out, clock, started,
                   sheetVars, loaded, saved>>

InitMain ==
    /\ InitSheet
    /\ file \in InitialFiles
    /\ loaded = NoLoad
    /\ saved = NotSaved
    /\ InitMainUnused

NextMain ==
    \/ \E p \in Procs, c \in Commands : Start(p, c)
    \/ \E p \in Procs : ReadSheet(p)
    \/ \E p \in Procs : Command(p)
    \/ \E p \in Procs : Create(p)
    \/ \E p \in Procs : WriteOut(p)
    \/ Load

SpecMain == InitMain /\ [][NextMain]_vars

\* ------------------------------------------------------------------------
\* Shape of the state
\* ------------------------------------------------------------------------
TypeOK ==
    /\ Len(events) <= MaxEvents
    /\ \A i \in 1..Len(events) :
          events[i].start \in Times /\ events[i].stop \in Times \cup {None}
    /\ call.op \in {"none", "punch_in_at", "punch_out_at", "status",
                    "count_range", "write", "load"}
    /\ file.kind \in {"absent", "bytes", "text"}
    /\ loaded.kind \in {"none", "Ok", "Err"}
    /\ ret.kind \in {"none", "Ok", "Err", "Status", "Duration"}
    /\ monotone \in BOOLEAN

\* The interval is open: its stop is absent.
IsOpen(e) == e.stop = None

\* ------------------------------------------------------------------------
\* Properties of the ledger
\* ------------------------------------------------------------------------
\* The last call was rejected / accepted.
Rejected == ret.kind = "Err"

Accepted == ret.kind = "Ok"

\* The sheet the last call was entered with had an open last interval.
WasOpen == has_last(before) /\ IsOpen(last(before))

\* C1: after every call of any sequence of punch_in_at / punch_out_at calls,
\* accepted or rejected and with any instants, every interval but the last
\* is closed: only the last interval of the ledger may have an absent stop.
C1_AtMostLastOpen ==
    \A i \in 1..Len(events) : IsOpen(events[i]) => i = Len(events)

\* The ledger holds closed intervals followed by an open one, and a call
\* has just been rejected.
C1_Witness ==
    /\ Len(events) >= 2
    /\ IsOpen(last(events))
    /\ Rejected

\* C2: the accepted punch calls strictly alternate, beginning with a
\* punch_in_at: the first, third, ... accepted call is a punch_in_at and the
\* second, fourth, ... is a punch_out_at.
C2_Alternation ==
    \A i \in 1..Len(okLog) :
        okLog[i] = IF i % 2 = 1 THEN "in" ELSE "out"

\* Three calls have been accepted and the latest call was rejected.
C2_Witness ==
    /\ Len(okLog) >= 3
    /\ Rejected
    /\ call.op \in {"punch_in_at", "punch_out_at"}

\* C3: a punch call that returns an error leaves the whole ledger as it was
\* when the call was entered.
C3_RejectedKeepsLedger ==
    Rejected => events = before

\* A punch_in_at was rejected on a ledger of several intervals.
C3_Witness ==
    /\ Rejected
    /\ ret.tag = "PunchedIn"
    /\ Len(events) >= 2

\* C4: punch_in_at(at) on a ledger that is empty or whose last interval is
\* closed returns Ok(at) and appends exactly one interval [at, absent],
\* leaving every earlier interval as it was.
C4_PunchInAppends ==
    (call.op = "punch_in_at" /\ ~WasOpen) =>
        /\ ret = [kind |-> "Ok", tag |-> "Ok", val |-> call.time]
        /\ Len(events) = Len(before) + 1
        /\ events[Len(events)] = [start |-> call.time, stop |-> None]
        /\ \A i \in 1..Len(before) : events[i] = before[i]

\* A punch_in_at was accepted on a ledger that already held a closed
\* interval.
C4_Witness ==
    /\ call.op = "punch_in_at"
    /\ has_last(before)
    /\ ~IsOpen(last(before))
    /\ Accepted

\* C5: punch_out_at(at) on a ledger whose last interval is open returns
\* Ok(at) and sets that interval's stop to at; the number of intervals, the
\* last interval's start and every earlier interval are as they were.
C5_PunchOutCloses ==
    (call.op = "punch_out_at" /\ WasOpen) =>
        /\ ret = [kind |-> "Ok", tag |-> "Ok", val |-> call.time]
        /\ Len(events) = Len(before)
        /\ events[Len(events)].stop = call.time
        /\ events[Len(events)].start = before[Len(before)].start
        /\ \A i \in 1..(Len(before) - 1) : events[i] = before[i]

\* A punch_out_at closed the second interval of a ledger.
C5_Witness ==
    /\ call.op = "punch_out_at"
    /\ WasOpen
    /\ Len(before) >= 2
    /\ Accepted

\* C6: punch_in_at on a ledger whose last interval is open fails with
\* SheetError::PunchedIn carrying the start of that open last interval.
C6_PunchedInCarriesStart ==
    (call.op = "punch_in_at" /\ WasOpen) =>
        ret = [kind |-> "Err", tag |-> "PunchedIn",
               val |-> before[Len(before)].start]

\* A punch_in_at was rejected where the open interval's start differs from
\* the instant passed and from the start of the interval before it.
C6_Witness ==
    /\ call.op = "punch_in_at"
    /\ WasOpen
    /\ Len(before) >= 2
    /\ last(before).start # call.time
    /\ last(before).start # before[Len(before) - 1].start
    /\ Rejected

\* C7: punch_out_at on a ledger with no open interval fails: with NoPunches
\* exactly when the ledger is empty, and otherwise with
\* SheetError::PunchedOut carrying the stop of the last interval.
C7_PunchOutErrors ==
    (call.op = "punch_out_at" /\ ~WasOpen) =>
        /\ ret.kind = "Err"
        /\ (ret.tag = "NoPunches") <=> (Len(before) = 0)
        /\ Len(before) > 0 =>
              ret = [kind |-> "Err", tag |-> "PunchedOut",
                     val |-> before[Len(before)].stop]

\* A punch_out_at was rejected on a ledger whose last interval is closed
\* with a stop that differs from its start and from the instant passed.
C7_Witness ==
    /\ call.op = "punch_out_at"
    /\ has_last(before)
    /\ ~IsOpen(last(before))
    /\ last(before).stop # last(before).start
    /\ last(before).stop # call.time
    /\ Rejected

\* What status() is to return for a ledger.
StatusExpected(evs) ==
    IF Len(evs) = 0
    THEN [kind |-> "Status", tag |-> "Empty", val |-> None]
    ELSE IF evs[Len(evs)].stop = None
         THEN [kind |-> "Status", tag |-> "PunchedIn",
               val |-> evs[Len(evs)].start]
         ELSE [kind |-> "Status", tag |-> "PunchedOut",
               val |-> evs[Len(evs)].stop]

\* C8: status() returns Empty for a ledger without intervals,
\* PunchedIn(start of the last interval) when the last interval is open and
\* PunchedOut(stop of the last interval) when it is closed, and leaves the
\* ledger as it was; a status() that follows a status() returns the same
\* value.
C8_Status ==
    /\ [](call.op = "status" => (ret = StatusExpected(before)
                                   /\ events = before))
    /\ [][(call.op = "status" /\ call'.op = "status") => ret' = ret]_vars

\* status() has answered PunchedOut on a ledger of several intervals whose
\* last stop differs from its start.
C8_Witness ==
    /\ call.op = "status"
    /\ Len(events) >= 2
    /\ ret.tag = "PunchedOut"
    /\ last(events).stop # last(events).start

\* C9: in every ledger reachable by punch_in_at / punch_out_at calls with
\* caller-supplied instants, every interval with a stop has stop >= start.
C9_StopNotBeforeStart ==
    \A i \in 1..Len(events) :
        (~IsOpen(events[i])) => events[i].stop >= events[i].start

\* The starts of consecutive intervals are in non-decreasing order.
StartsNonDecreasing ==
    \A i \in 1..(Len(events) - 1) : events[i].start <= events[i + 1].start

\* C10 as stated: in every ledger reachable by punch_in_at / punch_out_at
\* calls the intervals are in non-decreasing start order.
C10_StartsNonDecreasing_AnyTimes ==
    StartsNonDecreasing

\* C10 as amended: when every punch call was passed an instant not earlier
\* than the instant passed to the punch call before it, the intervals are
\* in non-decreasing start order.
C10_StartsNonDecreasing ==
    monotone => StartsNonDecreasing

\* Three intervals were recorded with instants that never went backwards
\* and that are not all the same.
C10_Witness ==
    /\ monotone
    /\ Len(events) >= 3
    /\ events[1].start < events[3].start

\* ------------------------------------------------------------------------
\* Properties of the ledger over time
\* ------------------------------------------------------------------------
\* C11: across punch_in_at, punch_out_at, status and count_range calls the
\* ledger only grows and a stop is written once: the number of intervals
\* never decreases, an interval's start never changes, and a stop that is
\* present never changes again.
C11_GrowOnly ==
    [][/\ Len(events') >= Len(events)
       /\ \A i \in 1..Len(events) :
            /\ events'[i].start = events[i].start
            /\ (events[i].stop # None => events'[i].stop = events[i].stop)
      ]_vars

\* A count_range call has run on a ledger with a closed interval followed
\* by an open one, after a punch_out_at had been accepted.
C11_Witness ==
    /\ call.op = "count_range"
    /\ Len(events) >= 2
    /\ ~IsOpen(events[1])
    /\ IsOpen(last(events))

\* ------------------------------------------------------------------------
\* Properties of count_range
\* ------------------------------------------------------------------------
\* The last call was count_range.
Counted == call.op = "count_range"

\* The effective stop of an interval: its stop, or `now` when it is open.
EffectiveStop(e, now) == IF e.stop = None THEN now ELSE e.stop

\* The interval is entirely outside [begin, end] in the specification's
\* sense: strictly before (effective stop < begin) or strictly after
\* (start > end).
SpecOutside(e, begin, end, now) ==
    EffectiveStop(e, now) < begin \/ e.start > end

\* min(end, effective_stop) - max(begin, start), the clipped overlap.
SpecOverlap(e, begin, end, now) ==
    (IF end <= EffectiveStop(e, now) THEN end ELSE EffectiveStop(e, now))
    - (IF begin >= e.start THEN begin ELSE e.start)

\* The sum of the clipped overlaps of the intervals not entirely outside.
RECURSIVE SpecSum(_, _, _, _)
SpecSum(evs, begin, end, now) ==
    IF Len(evs) = 0
    THEN 0
    ELSE SpecSum(SubSeq(evs, 1, Len(evs) - 1), begin, end, now)
         + (IF SpecOutside(evs[Len(evs)], begin, end, now)
            THEN 0
            ELSE SpecOverlap(evs[Len(evs)], begin, end, now))

\* Every interval of the ledger has start <= effective stop.
WellFormed(evs, now) ==
    \A i \in 1..Len(evs) : evs[i].start <= EffectiveStop(evs[i], now)

\* C12: for every ledger and every window with begin <= end, count_range
\* returns the sum, over the intervals not entirely outside the window, of
\* min(end, effective_stop) - max(begin, start); so it returns zero for an
\* empty ledger or when no interval overlaps, and the sum of both durations
\* for two disjoint intervals inside the window.
C12_CountIsClippedSum ==
    (Counted /\ window.begin <= window.end) =>
        ret.val = SpecSum(before, window.begin, window.end, window.now)

\* The same for the ledgers whose intervals all have start <= effective stop.
C12_CountIsClippedSum_WellFormed ==
    (Counted /\ window.begin <= window.end /\ WellFormed(before, window.now))
        => ret.val = SpecSum(before, window.begin, window.end, window.now)

\* C13: called with begin > end, count_range treats the window as having no
\* overlap: it returns a zero duration, never a negative one, for every
\* ledger.
C13_InvertedWindowIsZero ==
    (Counted /\ window.begin > window.end) => ret.val = 0

\* The ledger without its last interval.
Front(evs) == SubSeq(evs, 1, Len(evs) - 1)

\* What the last interval of the ledger added to the returned total.
LastContribution ==
    ret.val - count_range(Front(before), window.begin, window.end, window.now)

\* C14: an open last interval with start s that is not entirely outside the
\* window is counted as if it stopped at `now`: it contributes
\* min(end, now) - max(begin, s), which reaches up to the present moment
\* and never past the end of the window.
C14_OpenCountsToNow ==
    (/\ Counted
     /\ has_last(before)
     /\ IsOpen(last(before))
     /\ ~SpecOutside(last(before), window.begin, window.end, window.now))
    => /\ LastContribution =
            (IF window.end <= window.now THEN window.end ELSE window.now)
            - (IF window.begin >= last(before).start
               THEN window.begin ELSE last(before).start)
       /\ (window.begin <= last(before).start
             => LastContribution <= window.end - last(before).start)
       /\ ((window.begin = 0 /\ window.end = MaxTime)
             => LastContribution = window.now - last(before).start)

\* count_range ran over the whole range of instants on a ledger with a
\* closed interval and an interval open since an earlier instant than now.
C14_Witness ==
    /\ Counted
    /\ Len(before) = 2
    /\ IsOpen(last(before))
    /\ window.begin = 0
    /\ window.end = MaxTime
    /\ last(before).start < window.now
    /\ ret.val > window.now - last(before).start

\* The ledger the last call ran on is one closed interval [s, e], s <= e.
OneClosed ==
    /\ Len(before) = 1
    /\ ~IsOpen(before[1])
    /\ before[1].start <= before[1].stop

\* C15: for a ledger of one closed interval [s, e] with s <= e,
\* count_range(s, e) returns e - s, and a window that only touches the
\* interval (its end is s, or its begin is e) returns zero.
C15_Boundary ==
    (Counted /\ OneClosed /\ window.begin <= window.end) =>
        /\ (window.begin = before[1].start /\ window.end = before[1].stop)
              => ret.val = before[1].stop - before[1].start
        /\ (window.end = before[1].start /\ window.begin < before[1].start)
              => ret.val = 0
        /\ (window.begin = before[1].stop /\ window.end > before[1].stop)
              => ret.val = 0

\* count_range ran on [s, e], s < e, with a window that ends at s.
C15_Witness ==
    /\ Counted
    /\ OneClosed
    /\ before[1].start < before[1].stop
    /\ window.begin < window.end
    /\ window.end = before[1].start

\* C20: count_range leaves an interval out of the sum exactly when the
\* specification's filter discards it, that is when effective_stop < begin
\* or start > end; for every interval of every ledger reachable by
\* punch_in_at / punch_out_at and for every window.
C20_FilterAgrees ==
    Counted =>
        \A i \in 1..Len(before) :
            (~count_range_filter(before[i].start,
                                 unwrap_or_now(before[i], window.now),
                                 window.begin, window.end))
            <=> SpecOutside(before[i], window.begin, window.end, window.now)

\* The same for the ledgers whose intervals all have start <= effective stop.
C20_FilterAgrees_WellFormed ==
    (Counted /\ WellFormed(before, window.now)) =>
        \A i \in 1..Len(before) :
            (~count_range_filter(before[i].start,
                                 unwrap_or_now(before[i], window.now),
                                 window.begin, window.end))
            <=> SpecOutside(before[i], window.begin, window.end, window.now)

EmptySheetTexts == {<<>>, <<"{", "events", "[", "]", "}">>}

\* A non-empty text that is no serialized sheet: it does not open with "{",
\* or does not close with "}", or is too short, or closes its list early.
Malformed(text) ==
    /\ Len(text) > 0
    /\ \/ text[1] # "{"
       \/ text[Len(text)] # "}"
       \/ Len(text) < 5
       \/ \E i \in 1..(Len(text) - 2) : text[i] = "]"

\* The run has gone past read_sheet.
PastRead(p) == pc[p] \in {"loaded", "ran", "created", "done"}

\* C16: a sheet file whose content is non-empty and cannot be parsed is
\* never taken for an empty ledger: Sheet::load returns the ParseSheet
\* error (not OpenSheet, not ReadSheet), an empty ledger is returned only
\* for a text that stands for one, and a run of the program that read such
\* a content stops in read_sheet and neither truncates nor writes the file.
\* A step that is a call of Sheet::load: no run of the program moves and
\* the file is only read.
LoadStep == call'.op = "load" /\ file' = file /\ UNCHANGED mainVars

\* What C16 requires of the runs of the program.
RunsStopOnMalformed ==
    \A p \in Procs :
        /\ (pc[p] # "args" /\ Malformed(readText[p]))
              => /\ pc[p] = "panicked"
                 /\ tally[p].creates = 0
                 /\ tally[p].saves = 0
                 /\ quiet[p] => file = [kind |-> "text",
                                        text |-> readText[p]]
        /\ (PastRead(p) /\ got[p] = <<>>)
              => readText[p] \in EmptySheetTexts

C16_ParseFailureNotMasked ==
    /\ [][LoadStep =>
            /\ (file.kind = "text" /\ Malformed(file.text))
                  => loaded' = [kind |-> "Err", tag |-> "ParseSheet",
                                events |-> <<>>]
            /\ (loaded'.kind = "Ok" /\ loaded'.events = <<>>)
                  => (file.kind = "text" /\ file.text \in EmptySheetTexts)
         ]_vars
    /\ []RunsStopOnMalformed

\* A run of the program stopped on an unparsable file, and Sheet::load
\* then returned ParseSheet for the same, untouched file.
C16_Witness ==
    /\ call.op = "load"
    /\ loaded.tag = "ParseSheet"
    /\ \E p \in Procs :
          /\ pc[p] = "panicked"
          /\ quiet[p]
          /\ Malformed(readText[p])
          /\ Len(readText[p]) > 1

\* The ledger a run is to persist: the one it read, with its own accepted
\* punch applied.
ExpectedAfter(p) ==
    IF cmd[p] = "In" /\ out[p].kind = "Ok"
    THEN Append(got[p], [start |-> out[p].val, stop |-> None])
    ELSE IF cmd[p] = "Out" /\ out[p].kind = "Ok"
         THEN [got[p] EXCEPT ![Len(got[p])].stop = out[p].val]
         ELSE got[p]

\* C18: nothing in the load-mutate-save sequence guards against another
\* run: a run's save replaces the file by the ledger that run read with
\* its own punch applied, whatever other runs persisted in between; so two
\* runs alive together can leave a file without a punch that one of them
\* reported as accepted (the lost update of the witness).
C18_LastWriterWins ==
    [][\A p \in Procs :
          (pc[p] = "created" /\ pc'[p] = "done" /\ file.text = <<>>)
             => /\ file'.kind = "text"
                /\ is_sheet_json(file'.text)
                /\ Sheet_from_json(file'.text) = ExpectedAfter(p)
      ]_vars

\* Both runs punched in at different instants, both were accepted and both
\* have saved, and the file holds a ledger with one interval only.
C18_Witness ==
    /\ pc[1] = "done" /\ pc[2] = "done"
    /\ cmd[1] = "In" /\ cmd[2] = "In"
    /\ out[1].kind = "Ok" /\ out[2].kind = "Ok"
    /\ out[1].val # out[2].val
    /\ is_sheet_json(file.text)
    /\ Len(Sheet_from_json(file.text)) = 1

\* What is required of a run that no other run disturbed.
RunIsLoadPunchSave(p) ==
    /\ tally[p].loads = 1
    /\ tally[p].punches <= 1
    /\ tally[p].saves = 1
    /\ (cmd[p] \in {"Status", "Count"} \/ out[p].kind = "Err")
          => /\ file.kind = "text"
             /\ is_sheet_json(file.text)
             /\ Sheet_from_json(file.text) = got[p]

OrderedInstants ==
    /\ monotone
    /\ (window.now = None \/ lastTime = None \/ window.now >= lastTime)

\* No two intervals of the ledger overlap: each one has stopped, or stops
\* at `now`, not later than the next one starts.
NoOverlap(evs, now) ==
    \A i \in 1..Len(evs) : \A j \in 1..Len(evs) :
        i < j => EffectiveStop(evs[i], now) <= evs[j].start

\* C21: when the instants passed to successive punch calls are
\* non-decreasing and `now` is not earlier than any of them, then for every
\* reachable ledger and every window with begin <= end the result of
\* count_range is at least zero and at most end - begin; the recorded
\* intervals do not overlap each other, so no instant is counted twice.
C21_CountWithinWindow ==
    (Counted /\ OrderedInstants /\ window.begin <= window.end) =>
        /\ 0 <= ret.val
        /\ ret.val <= window.end - window.begin
        /\ NoOverlap(before, window.now)
        /\ WellFormed(before, window.now)

\* count_range ran under ordered instants on a closed interval followed by
\* an open one, with a window that both fill completely.
C21_Witness ==
    /\ Counted
    /\ OrderedInstants
    /\ Len(before) = 2
    /\ IsOpen(last(before))
    /\ before[1].start < before[1].stop
    /\ window.begin < window.end
    /\ window.now > last(before).start
    /\ ret.val = window.end - window.begin

\* ------------------------------------------------------------------------
\* The two punch operations against status
\* ------------------------------------------------------------------------
\* punch_in_at(time) / punch_out_at(time) would return Ok on the ledger.
PunchInSucceeds(evs, time) == punch_in_at_result(evs, time).ret.kind = "Ok"

PunchOutSucceeds(evs, time) == punch_out_at_result(evs, time).ret.kind = "Ok"

\* C22: in every reachable ledger exactly one of the two punch operations
\* would succeed: punch_in_at succeeds if and only if status() is Empty or
\* PunchedOut, and punch_out_at succeeds if and only if status() is
\* PunchedIn; no reachable state rejects both.  The punch call that was
\* made last was accepted or rejected accordingly.
C22_ExactlyOnePunchSucceeds ==
    /\ \A time \in Times :
          /\ PunchInSucceeds(events, time)
                <=> status(events).tag \in {"Empty", "PunchedOut"}
          /\ PunchOutSucceeds(events, time)
                <=> status(events).tag = "PunchedIn"
          /\ PunchInSucceeds(events, time) # PunchOutSucceeds(events, time)
    /\ call.op = "punch_in_at"
          => (Accepted <=> status(before).tag \in {"Empty", "PunchedOut"})
    /\ call.op = "punch_out_at"
          => (Accepted <=> status(before).tag = "PunchedIn")

\* punch_out_at was rejected on a ledger of several intervals whose last has
\* stopped, where punch_in_at would be accepted.
C22_Witness ==
    /\ call.op = "punch_out_at"
    /\ Rejected
    /\ ret.tag = "PunchedOut"
    /\ Len(events) >= 2
    /\ status(events).tag = "PunchedOut"
    /\ \A time \in Times : PunchInSucceeds(events, time)

\* ------------------------------------------------------------------------
\* Additivity of count_range
\* ------------------------------------------------------------------------
\* count_range(a, b) + count_range(b, c) on the ledger, `now` held fixed.
SplitCount(evs, a, b, c, now) ==
    count_range(evs, a, b, now) + count_range(evs, b, c, now)

\* C23: count_range is additive over adjacent windows: for a ledger whose
\* intervals all have start <= effective stop, with `now` held fixed, and
\* for any a <= b <= c, count_range(a, b) + count_range(b, c) equals
\* count_range(a, c).
C23_Additive ==
    (Counted /\ WellFormed(before, window.now)
             /\ window.begin <= window.end) =>
        \A b \in window.begin..window.end :
            SplitCount(before, window.begin, b, window.end, window.now)
                = ret.val

\* count_range ran over a window that an interval of the ledger spans, so
\* that an instant strictly inside the window splits the interval in two
\* parts of positive duration.
C23_Witness ==
    /\ Counted
    /\ WellFormed(before, window.now)
    /\ has_last(before)
    /\ window.end - window.begin >= 2
    /\ ret.val = window.end - window.begin
    /\ \E i \in 1..Len(before) :
          /\ before[i].start <= window.begin
          /\ EffectiveStop(before[i], window.now) >= window.end
    /\ \E b \in (window.begin + 1)..(window.end - 1) :
          /\ count_range(before, window.begin, b, window.now) > 0
          /\ count_range(before, b, window.end, window.now) > 0

====
